---- MODULE Spec2Model ----
(***************************************************************************)
(* Job lifecycle coordination of hybrid-ocr: the submission service        *)
(* (hybrid-ocr-api/app.py, create_job) and the worker loop                 *)
(* (hybrid-ocr-worker/aws_worker.py, main), coordinating through a         *)
(* DynamoDB table, an S3 bucket and an SQS queue.                          *)
(*                                                                         *)
(* Every boto3 call is one atomic step.  A call that the source wraps in   *)
(* a try statement may raise, and its handler is then what runs next:      *)
(* upload_fileobj, put_item, delete_object and send_message in create_job; *)
(* head_object, claim_job's update_item, and every call of the try block   *)
(* of main() (download_file, upload_file, ddb_set_status, delete_message). *)
(* The update_item of create_job's send_message handler has no handler of  *)
(* its own and is taken to succeed.  A worker process may be killed at any *)
(* call; its supervisor starts it again at the top of the loop.  SQS       *)
(* delivers at least once: a message can be received by every worker until *)
(* some worker deletes it.  The timestamps (created_at, updated_at,        *)
(* processing_started_at) are written but never read by either program and *)
(* are left out of the items; the clock is taken not to run backwards.     *)
(***************************************************************************)
EXTENDS Integers, Sequences, FiniteSets, TLC

\* ------------------------------------------------------------------ bounds
NumWorkers == 2      \* worker processes running main()
MaxElapsed == 1      \* largest clock advance between two now_ms() readings

Workers == 1..NumWorkers
\* the POST /jobs requests of a run
Requests == {1, 2}
\* the values uuid.uuid4() returns (app.py:55).  Every item, key and message
\* is addressed by job_id, so jobs of different ids share nothing; one id
\* makes the two requests collide, which is the case the conditional insert
\* is there for
JobIds == {"j1"}
\* file names a client may send, as character sequences (f.filename)
RawNames == {<< >>, <<"a", "/">>, <<"a", "_">>}
\* readings of the wall clock at t0 (aws_worker.py:154)
Times == 0..1
\* the size ceiling of validate_file, in bytes
MaxFileBytes == 25 * 1024 * 1024
\* what a client may send: the x-api-key header matches or not, the
\* multipart field "file" is there or not, its content type and its size
ClientInput(key_ok, has_file, mimetype, size) ==
    [key_ok |-> key_ok, has_file |-> has_file, mimetype |-> mimetype, size |-> size]
Inputs ==
    {ClientInput(TRUE, TRUE, "application/pdf", MaxFileBytes),
     ClientInput(TRUE, TRUE, "image/png", 1024),
     ClientInput(TRUE, TRUE, "image/jpeg", 1024),
     ClientInput(TRUE, TRUE, "application/pdf", MaxFileBytes + 1),
     ClientInput(TRUE, TRUE, "application/pdf", 30 * 1024 * 1024),
     ClientInput(TRUE, TRUE, "text/plain", 1024),
     ClientInput(TRUE, FALSE, "", 0),
     ClientInput(FALSE, TRUE, "image/png", 1024)}
\* the request body once create_job has read it
NoInput == ClientInput(TRUE, FALSE, "", 0)

VARIABLES
    ddb,          \* the table: job_id -> item, DOMAIN = the existing keys
    s3,           \* the bucket: key -> content, DOMAIN = the existing keys
    sqs,          \* the queue: the messages not yet deleted
    wpc,          \* worker -> its position in main()'s loop
    wmsg,         \* worker -> the message body it is handling
    wloc,         \* worker -> its locals (duration, err)
    spc,          \* request -> its position in create_job
    sloc,         \* request -> its locals (job_id, filename, e)
    resp,         \* request -> the response returned
    req,          \* request -> what the client sent, until it is read
    claimWon,     \* job_id -> number of claim_job calls that returned True
    resultPuts    \* job_id -> number of uploads to result_key

vars == <<ddb, s3, sqs, wpc, wmsg, wloc, spc, sloc, resp, req,
          claimWon, resultPuts>>

NoMsg == [job_id |-> "none"]
NoLoc == [duration |-> 0, err |-> ""]
NoReq == [job_id |-> "none", filename |-> << >>, e |-> ""]
NoResp == [code |-> 0]

\* ---------------------------------------------------------------- helpers
\* str.replace("/", "_") of (f.filename or "upload")
Sanitize(name) ==
    IF name = << >> THEN <<"u", "p", "l", "o", "a", "d">>
    ELSE [i \in DOMAIN name |-> IF name[i] = "/" THEN "_" ELSE name[i]]

InputKey(j, filename) == <<"uploads", j, filename>>
ResultKey(j) == <<"results", j, "result.json">>

\* DynamoDB SET: the named attributes are written, the others kept; an
\* update of a key that has no item creates the item
UpdateItem(table, j, fields) ==
    IF j \in DOMAIN table
    THEN [table EXCEPT ![j] = fields @@ @]
    ELSE (j :> (fields @@ [job_id |-> j])) @@ table

PutObject(bucket, key, content) == (key :> content) @@ bucket
DeleteObject(bucket, key) == [k \in (DOMAIN bucket) \ {key} |-> bucket[k]]

StatusOf(table, j) == IF j \in DOMAIN table THEN table[j].status ELSE "absent"

\* claim_job with the condition "not already PROCESSING"
ClaimConditionNotProcessing(table, j) == StatusOf(table, j) # "PROCESSING"

\* claim_job without its condition on the stored status
ClaimConditionAnyStatus(table, j) == j \in DOMAIN table

\* claim_job taking over a job that is PROCESSING
ClaimConditionReclaims(table, j) == StatusOf(table, j) \in {"QUEUED", "PROCESSING"}

\* the condition of claim_job's update: #s = :q
ClaimCondition(table, j) == StatusOf(table, j) = "QUEUED"

\* claim_job with an update that leaves the status as it was
ClaimFieldsNoStatus(w) == [worker_id |-> w]

\* claim_job's update expression
ClaimFields(w) == [status |-> "PROCESSING", worker_id |-> w]

\* ddb_set_status with an update that also resets worker_id
SetStatusFieldsResetsWorker(new_status, extra) ==
    [status |-> new_status, worker_id |-> 0] @@ extra

\* ddb_set_status: status plus the extra fields that are not None
SetStatusFields(new_status, extra) == [status |-> new_status] @@ extra

\* the two clock readings subtracted the wrong way round
DurationReversed(t0, t1) == t0 - t1

\* duration = now_ms() - t0
Duration(t0, t1) == t1 - t0

\* err = f"{type(e).__name__}: {e}"
ErrText(type, text) == type \o ": " \o text

\* f"sqs send failed: {e}"
SendFailedText(text) == "sqs send failed: " \o text

Init ==
    /\ ddb = << >>
    /\ s3 = << >>
    /\ sqs = {}
    /\ wpc = [w \in Workers |-> "receive"]
    /\ wmsg = [w \in Workers |-> NoMsg]
    /\ wloc = [w \in Workers |-> NoLoc]
    /\ spc = [r \in Requests |-> "upload"]
    /\ sloc = [r \in Requests |-> NoReq]
    /\ resp = [r \in Requests |-> NoResp]
    /\ req \in [Requests -> Inputs]
    /\ claimWon = [j \in JobIds |-> 0]
    /\ resultPuts = [j \in JobIds |-> 0]

workerVars == <<wpc, wmsg, wloc>>
requestVars == <<spc, sloc, resp, req>>
ghostVars == <<claimWon, resultPuts>>

\* ------------------------------------------------------- create_job steps
\* the handler returns: its locals are gone
Return(r) ==
    /\ spc' = [spc EXCEPT ![r] = "done"]
    /\ sloc' = [sloc EXCEPT ![r] = NoReq]

\* require_api_key, with API_KEY set
RequireApiKey(in) == in.key_ok

\* validate_file without the size ceiling
ValidateFileNoSizeCheck(in) ==
    IF in.mimetype \notin {"application/pdf", "image/png", "image/jpeg"}
    THEN [ok |-> FALSE, err |-> "unsupported content-type: " \o in.mimetype]
    ELSE [ok |-> TRUE, err |-> ""]

\* validate_file: (ok, err)
ValidateFile(in) ==
    IF in.mimetype \notin {"application/pdf", "image/png", "image/jpeg"}
    THEN [ok |-> FALSE, err |-> "unsupported content-type: " \o in.mimetype]
    ELSE IF in.size > MaxFileBytes
    THEN [ok |-> FALSE, err |-> "file too large (max 25MB)"]
    ELSE [ok |-> TRUE, err |-> ""]

\* the response that ends create_job before its first side effect, or
\* NoResp when the request passes the checks
Rejection(in) ==
    IF ~RequireApiKey(in) THEN [code |-> 401, error |-> "unauthorized"]
    ELSE IF ~in.has_file
    THEN [code |-> 400, error |-> "file is required (multipart field: file)"]
    ELSE IF ~ValidateFile(in).ok THEN [code |-> 400, error |-> ValidateFile(in).err]
    ELSE NoResp

\* the checks of create_job; job_id, filename, keys; 1) s3.upload_fileobj
SubmitUpload(r) ==
    /\ spc[r] = "upload"
    /\ req' = [req EXCEPT ![r] = NoInput]
    /\ IF Rejection(req[r]) # NoResp
       THEN /\ resp' = [resp EXCEPT ![r] = Rejection(req[r])]
            /\ spc' = [spc EXCEPT ![r] = "done"]
            /\ UNCHANGED <<s3, sloc>>
       ELSE \E j \in JobIds, raw \in RawNames, ok \in BOOLEAN :
              LET filename == Sanitize(raw) IN
              IF ok
              THEN /\ s3' = PutObject(s3, InputKey(j, filename), r)
                   /\ sloc' = [sloc EXCEPT ![r] =
                                 [job_id |-> j, filename |-> filename, e |-> ""]]
                   /\ spc' = [spc EXCEPT ![r] = "put"]
                   /\ resp' = resp
              ELSE /\ resp' = [resp EXCEPT ![r] =
                                 [code |-> 500, error |-> "s3 upload failed"]]
                   /\ spc' = [spc EXCEPT ![r] = "done"]
                   /\ UNCHANGED <<s3, sloc>>
    /\ UNCHANGED <<ddb, sqs, workerVars, ghostVars>>

\* the item of put_item
NewItem(j, filename) ==
    [job_id |-> j, status |-> "QUEUED",
     input_s3_key |-> InputKey(j, filename),
     result_s3_key |-> ResultKey(j),
     original_filename |-> filename]

\* put_item without its ConditionExpression
InsertConditionNone(table, j) == TRUE

\* ConditionExpression attribute_not_exists(job_id)
InsertCondition(table, j) == j \notin DOMAIN table

\* put_item whose errors other than the condition failure go unreported
PutItemFaultIgnored(table, j, item, fault) ==
    IF fault THEN [e |-> "ok", table |-> table]
    ELSE IF j \notin DOMAIN table THEN [e |-> "ok", table |-> (j :> item) @@ table]
    ELSE [e |-> "ConditionalCheckFailedException", table |-> table]

\* put_item: "ok" with the item inserted, or the code of the ClientError
PutItem(table, j, item, fault) ==
    IF fault THEN [e |-> "ServiceUnavailable", table |-> table]
    ELSE IF InsertCondition(table, j) THEN [e |-> "ok", table |-> (j :> item) @@ table]
    ELSE [e |-> "ConditionalCheckFailedException", table |-> table]

\* 2) ddb.put_item
SubmitPut(r) ==
    /\ spc[r] = "put"
    /\ \E fault \in BOOLEAN :
         LET j == sloc[r].job_id
             p == PutItem(ddb, j, NewItem(j, sloc[r].filename), fault)
         IN /\ ddb' = p.table
            /\ IF p.e = "ok"
               THEN spc' = [spc EXCEPT ![r] = "send"] /\ sloc' = sloc
               ELSE /\ spc' = [spc EXCEPT ![r] = "cleanup"]
                    /\ sloc' = [sloc EXCEPT ![r].e = p.e]
    /\ UNCHANGED <<s3, sqs, resp, req, workerVars, ghostVars>>

\* the put_item handler: s3.delete_object, errors swallowed
SubmitCleanup(r) ==
    /\ spc[r] = "cleanup"
    /\ \E ok \in BOOLEAN :
         s3' = IF ok
               THEN DeleteObject(s3, InputKey(sloc[r].job_id, sloc[r].filename))
               ELSE s3
    /\ resp' = [resp EXCEPT ![r] =
                  [code |-> 500, error |-> "ddb put failed", detail |-> sloc[r].e]]
    /\ Return(r)
    /\ UNCHANGED <<ddb, sqs, req, workerVars, ghostVars>>

\* the message body of send_message
Message(j, filename) ==
    [job_id |-> j, input_key |-> InputKey(j, filename), result_key |-> ResultKey(j)]

\* 3) sqs.send_message
SubmitSend(r) ==
    /\ spc[r] = "send"
    /\ \E ok \in BOOLEAN :
         IF ok
         THEN /\ sqs' = sqs \cup {Message(sloc[r].job_id, sloc[r].filename)}
              /\ resp' = [resp EXCEPT ![r] =
                            [code |-> 201, job_id |-> sloc[r].job_id, status |-> "QUEUED"]]
              /\ Return(r)
         ELSE /\ spc' = [spc EXCEPT ![r] = "markFailed"]
              /\ UNCHANGED <<sqs, resp, sloc>>
    /\ UNCHANGED <<ddb, s3, req, workerVars, ghostVars>>

\* the send_message handler: ddb.update_item to FAILED
SubmitMarkFailed(r) ==
    /\ spc[r] = "markFailed"
    /\ ddb' = UpdateItem(ddb, sloc[r].job_id,
                         [status |-> "FAILED",
                          error_message |-> SendFailedText("ClientError")])
    /\ resp' = [resp EXCEPT ![r] =
                  [code |-> 500, error |-> "sqs send failed", job_id |-> sloc[r].job_id]]
    /\ Return(r)
    /\ UNCHANGED <<s3, sqs, req, workerVars, ghostVars>>

\* ------------------------------------------------------ worker loop steps
Goto(w, label) == wpc' = [wpc EXCEPT ![w] = label]

\* a delete_message that leaves the message in the queue
DeleteMessageKeeps(queue, m) == queue

\* sqs.delete_message
DeleteMessage(queue, m) == queue \ {m}

\* sqs.receive_message returned a message
Receive(w) ==
    /\ wpc[w] = "receive"
    /\ \E m \in sqs : wmsg' = [wmsg EXCEPT ![w] = m]
    /\ Goto(w, "precheck")
    /\ UNCHANGED <<ddb, s3, sqs, wloc, requestVars, ghostVars>>

\* s3_object_exists with its two results exchanged
S3ObjectExistsInverted(bucket, key, fault) ==
    IF fault THEN "raise"
    ELSE IF key \in DOMAIN bucket THEN "false" ELSE "true"

\* s3_object_exists: True, False, or the error re-raised
S3ObjectExists(bucket, key, fault) ==
    IF fault THEN "raise"
    ELSE IF key \in DOMAIN bucket THEN "true" ELSE "false"

\* where the pre-check's try statement leaves the loop body
AfterPrecheck(exists) ==
    CASE exists = "true" -> "ackExists"
      [] exists = "false" -> "claim"
      [] exists = "raise" -> "headError"

\* the idempotency pre-check
Precheck(w) ==
    /\ wpc[w] = "precheck"
    /\ \E fault \in BOOLEAN :
         Goto(w, AfterPrecheck(S3ObjectExists(s3, wmsg[w].result_key, fault)))
    /\ UNCHANGED <<ddb, s3, sqs, wmsg, wloc, requestVars, ghostVars>>

\* the pre-check's handler treating the error as "the result exists"
AfterHeadErrorSkips == "ackExists"

\* where the pre-check's handler leaves the loop body: at the atomic claim
AfterHeadError == "claim"

\* the pre-check's handler: the error is printed, the loop body goes on
HeadError(w) ==
    /\ wpc[w] = "headError"
    /\ Goto(w, AfterHeadError)
    /\ UNCHANGED <<ddb, s3, sqs, wmsg, wloc, requestVars, ghostVars>>

\* delete_message and continue, after the result was found or the claim refused
AckSkip(w) ==
    /\ wpc[w] \in {"ackExists", "ackRefused"}
    /\ sqs' = DeleteMessage(sqs, wmsg[w])
    /\ Goto(w, "receive")
    /\ wmsg' = [wmsg EXCEPT ![w] = NoMsg]
    /\ UNCHANGED <<ddb, s3, wloc, requestVars, ghostVars>>

\* claim_job with the condition failure swallowed: True either way
ClaimJobSwallowed(table, j, w) ==
    IF ClaimCondition(table, j)
    THEN [ok |-> TRUE, table |-> UpdateItem(table, j, ClaimFields(w))]
    ELSE [ok |-> TRUE, table |-> table]

\* claim_job: the conditional update, and True or False
ClaimJob(table, j, w) ==
    IF ClaimCondition(table, j)
    THEN [ok |-> TRUE, table |-> UpdateItem(table, j, ClaimFields(w))]
    ELSE [ok |-> FALSE, table |-> table]

\* main() without its test of claim_job's result
AfterClaimUnchecked(ok) == "download"

\* if not ok: delete_message, continue
AfterClaim(ok) == IF ok THEN "download" ELSE "ackRefused"

\* the atomic claim
Claim(w) ==
    /\ wpc[w] = "claim"
    /\ LET j == wmsg[w].job_id
           c == ClaimJob(ddb, j, w)
       IN /\ ddb' = c.table
          /\ claimWon' = [claimWon EXCEPT ![j] = IF c.ok THEN @ + 1 ELSE @]
          /\ Goto(w, AfterClaim(c.ok))
    /\ UNCHANGED <<s3, sqs, wmsg, wloc, requestVars, resultPuts>>

\* claim_job re-raised an error that is no condition failure: the handler
\* of main() is entered, the table is as it was
ClaimError(w) ==
    /\ wpc[w] = "claim"
    /\ Goto(w, "claimError")
    /\ UNCHANGED <<ddb, s3, sqs, wmsg, wloc, requestVars, ghostVars>>

\* the claim handler taking the error for a refused claim
AfterClaimErrorAcks == "ackRefused"

\* where the claim handler's raise leaves main(): the process ends and its
\* supervisor starts it again at the top of the loop
AfterClaimError == "receive"

\* the claim handler: the error is printed and raised again
Reraise(w) ==
    /\ wpc[w] = "claimError"
    /\ Goto(w, AfterClaimError)
    /\ IF AfterClaimError = "receive"
       THEN /\ wmsg' = [wmsg EXCEPT ![w] = NoMsg]
            /\ wloc' = [wloc EXCEPT ![w] = NoLoc]
       ELSE UNCHANGED <<wmsg, wloc>>
    /\ UNCHANGED <<ddb, s3, sqs, requestVars, ghostVars>>

\* the process is killed, or a delete_message outside the try block raises,
\* and the supervisor starts the process again
Crash(w) ==
    /\ wpc[w] \notin {"receive", "claimError"}
    /\ Goto(w, "receive")
    /\ wmsg' = [wmsg EXCEPT ![w] = NoMsg]
    /\ wloc' = [wloc EXCEPT ![w] = NoLoc]
    /\ UNCHANGED <<ddb, s3, sqs, requestVars, ghostVars>>

Fail(w, type, text) ==
    /\ wloc' = [wloc EXCEPT ![w].err = ErrText(type, text)]
    /\ Goto(w, "setFailed")

\* s3.download_file, dummy_ocr and the payload written to local_out
Download(w) ==
    /\ wpc[w] = "download"
    /\ \/ /\ wmsg[w].input_key \in DOMAIN s3
          /\ \E t0 \in Times, d \in 0..MaxElapsed :
               wloc' = [wloc EXCEPT ![w].duration = Duration(t0, t0 + d)]
          /\ Goto(w, "upload")
       \/ Fail(w, "ClientError", "download")
       \/ Fail(w, "OSError", "write")
    /\ UNCHANGED <<ddb, s3, sqs, wmsg, requestVars, ghostVars>>

\* the result payload
Payload(j, duration) == [job_id |-> j, status |-> "DONE", duration_ms |-> duration]

\* s3.upload_file
Upload(w) ==
    /\ wpc[w] = "upload"
    /\ \/ /\ s3' = PutObject(s3, wmsg[w].result_key,
                             Payload(wmsg[w].job_id, wloc[w].duration))
          /\ resultPuts' = [resultPuts EXCEPT ![wmsg[w].job_id] = @ + 1]
          /\ Goto(w, "setDone")
          /\ wloc' = wloc
       \/ /\ Fail(w, "S3UploadFailedError", "upload")
          /\ UNCHANGED <<s3, resultPuts>>
    /\ UNCHANGED <<ddb, sqs, wmsg, requestVars, claimWon>>

\* ddb_set_status(job_id, "DONE", extra={"duration_ms": duration})
SetDone(w) ==
    /\ wpc[w] = "setDone"
    /\ \/ /\ ddb' = UpdateItem(ddb, wmsg[w].job_id,
                               SetStatusFields("DONE", [duration_ms |-> wloc[w].duration]))
          /\ Goto(w, "ackDone")
          /\ wloc' = wloc
       \/ /\ Fail(w, "ClientError", "update")
          /\ ddb' = ddb
    /\ UNCHANGED <<s3, sqs, wmsg, requestVars, ghostVars>>

\* delete_message inside the try block
AckDone(w) ==
    /\ wpc[w] = "ackDone"
    /\ \/ /\ sqs' = DeleteMessage(sqs, wmsg[w])
          /\ Goto(w, "receive")
          /\ wmsg' = [wmsg EXCEPT ![w] = NoMsg]
          /\ wloc' = [wloc EXCEPT ![w] = NoLoc]
       \/ /\ Fail(w, "ClientError", "delete")
          /\ UNCHANGED <<sqs, wmsg>>
    /\ UNCHANGED <<ddb, s3, requestVars, ghostVars>>

\* the except branch: ddb_set_status(job_id, "FAILED", ...), errors swallowed
SetFailed(w) ==
    /\ wpc[w] = "setFailed"
    /\ \E ok \in BOOLEAN :
         ddb' = IF ok
                THEN UpdateItem(ddb, wmsg[w].job_id,
                                SetStatusFields("FAILED", [error_message |-> wloc[w].err]))
                ELSE ddb
    /\ Goto(w, "ackFailed")
    /\ UNCHANGED <<s3, sqs, wmsg, wloc, requestVars, ghostVars>>

\* delete_message of the except branch
AckFailed(w) ==
    /\ wpc[w] = "ackFailed"
    /\ sqs' = DeleteMessage(sqs, wmsg[w])
    /\ Goto(w, "receive")
    /\ wmsg' = [wmsg EXCEPT ![w] = NoMsg]
    /\ wloc' = [wloc EXCEPT ![w] = NoLoc]
    /\ UNCHANGED <<ddb, s3, requestVars, ghostVars>>

Next ==
    \/ \E r \in Requests : SubmitUpload(r)
    \/ \E r \in Requests : SubmitPut(r)
    \/ \E r \in Requests : SubmitCleanup(r)
    \/ \E r \in Requests : SubmitSend(r)
    \/ \E r \in Requests : SubmitMarkFailed(r)
    \/ \E w \in Workers : Receive(w)
    \/ \E w \in Workers : Precheck(w)
    \/ \E w \in Workers : AckSkip(w)
    \/ \E w \in Workers : HeadError(w)
    \/ \E w \in Workers : Claim(w)
    \/ \E w \in Workers : ClaimError(w)
    \/ \E w \in Workers : Reraise(w)
    \/ \E w \in Workers : Download(w)
    \/ \E w \in Workers : Upload(w)
    \/ \E w \in Workers : SetDone(w)
    \/ \E w \in Workers : AckDone(w)
    \/ \E w \in Workers : SetFailed(w)
    \/ \E w \in Workers : AckFailed(w)
    \/ \E w \in Workers : Crash(w)

Spec == Init /\ [][Next]_vars

\* ------------------------------------------- the system without faults
\* The same steps with every boto3 call answering: no call raises for a
\* reason of the infrastructure, no local write fails, no process is
\* killed.  What stays is what the data decides: the conditional insert
\* refuses an existing job_id, the claim refuses an item that is not
\* QUEUED, and download_file fails when the input blob is not there.
ReliableSubmitUpload(r) == SubmitUpload(r) /\ resp'[r].code # 500
ReliableSubmitPut(r) == SubmitPut(r) /\ sloc'[r].e # "ServiceUnavailable"
ReliableSubmitCleanup(r) ==
    /\ SubmitCleanup(r)
    /\ s3' = DeleteObject(s3, InputKey(sloc[r].job_id, sloc[r].filename))
ReliableSubmitSend(r) == SubmitSend(r) /\ spc'[r] = "done"
ReliablePrecheck(w) == Precheck(w) /\ wpc'[w] # "headError"
ReliableDownload(w) ==
    /\ Download(w)
    /\ IF wmsg[w].input_key \in DOMAIN s3
       THEN wpc'[w] = "upload"
       ELSE wloc'[w].err = ErrText("ClientError", "download")
ReliableUpload(w) == Upload(w) /\ wpc'[w] = "setDone"
ReliableSetDone(w) == SetDone(w) /\ wpc'[w] = "ackDone"
ReliableAckDone(w) == AckDone(w) /\ wpc'[w] = "receive"
ReliableSetFailed(w) ==
    SetFailed(w) /\ StatusOf(ddb', wmsg[w].job_id) = "FAILED"

\* one step of worker w's loop
WorkerStep(w) ==
    \/ Receive(w)
    \/ ReliablePrecheck(w)
    \/ AckSkip(w)
    \/ Claim(w)
    \/ ReliableDownload(w)
    \/ ReliableUpload(w)
    \/ ReliableSetDone(w)
    \/ ReliableAckDone(w)
    \/ ReliableSetFailed(w)
    \/ AckFailed(w)

\* one step of request r's handler
RequestStep(r) ==
    \/ ReliableSubmitUpload(r)
    \/ ReliableSubmitPut(r)
    \/ ReliableSubmitCleanup(r)
    \/ ReliableSubmitSend(r)

FairNext ==
    \/ \E r \in Requests : RequestStep(r)
    \/ \E w \in Workers : WorkerStep(w)

\* every worker is a process of its own running `while True`, and every
\* request a thread that runs its handler to the end: none of them stops
\* while it has a step to take
FairSpec ==
    /\ Init
    /\ [][FairNext]_vars
    /\ \A w \in Workers : WF_vars(WorkerStep(w))
    /\ \A r \in Requests : WF_vars(RequestStep(r))

\* ------------------------------------------------------------ vocabulary
\* positions of main() after a won claim
PastClaim == {"download", "upload", "setDone", "ackDone", "setFailed", "ackFailed"}
\* positions of main() up to the claim and on the two skip paths
BeforeClaim == {"precheck", "headError", "claim", "claimError", "ackExists", "ackRefused"}
Handling(w, j) == wpc[w] # "receive" /\ wmsg[w].job_id = j
Stepped(w) == wpc'[w] # wpc[w]
ResultExists(j) == ResultKey(j) \in DOMAIN s3

\* ------------------------------------------------------------------- C1
\* a claim_job that returns: True with the item set to PROCESSING when the
\* item was QUEUED, False with nothing changed otherwise
ClaimReturns(w) ==
    (wpc[w] = "claim" /\ wpc'[w] \in {"download", "ackRefused"}) =>
        LET j == wmsg[w].job_id IN
        IF StatusOf(ddb, j) = "QUEUED"
        THEN /\ wpc'[w] = "download"
             /\ ddb' = [ddb EXCEPT ![j] = [status |-> "PROCESSING", worker_id |-> w] @@ @]
             /\ claimWon'[j] = 1
        ELSE /\ wpc'[w] = "ackRefused"
             /\ UNCHANGED <<ddb, s3, sqs, claimWon>>

\* C1: of the claim_job calls made for a QUEUED job by any number of workers
\* in any interleaving, exactly one returns True and sets PROCESSING; every
\* other one returns False on the condition failure and changes nothing.
C1_ExactlyOneClaimSucceeds ==
    /\ [](\A w \in Workers :
            wpc[w] \in PastClaim \cup {"ackRefused"} => claimWon[wmsg[w].job_id] = 1)
    /\ [][\A w \in Workers : ClaimReturns(w)]_vars

\* one worker won the claim and another was refused for the same job
C1_Witness ==
    \E w1, w2 \in Workers :
        /\ wpc[w1] = "download" /\ wpc[w2] = "ackRefused"
        /\ wmsg[w1].job_id = wmsg[w2].job_id
        /\ ddb[wmsg[w1].job_id].status = "PROCESSING"

\* ------------------------------------------------------------------- C2
\* C2: for every job at most one worker is past the claim step, and while
\* it has written no outcome the item is PROCESSING under its worker_id.
C2_AtMostOneHolder ==
    \A j \in JobIds :
        /\ Cardinality({w \in Workers : Handling(w, j) /\ wpc[w] \in PastClaim}) <= 1
        /\ \A w \in Workers :
             Handling(w, j) /\ wpc[w] \in {"download", "upload", "setDone"} =>
                 ddb[j].status = "PROCESSING" /\ ddb[j].worker_id = w

\* the message was delivered twice: one worker is uploading, the other is
\* about to attempt the claim
C2_Witness ==
    \E w1, w2 \in Workers :
        /\ wpc[w1] = "upload" /\ wpc[w2] = "claim"
        /\ wmsg[w1] = wmsg[w2]

\* ------------------------------------------------------------------- C3
\* C3: over a whole run, with crashes and duplicate deliveries, at most one
\* claim succeeds for a job and its result blob is uploaded at most once.
C3_ExecutedAtMostOnce ==
    \A j \in JobIds : claimWon[j] <= 1 /\ resultPuts[j] <= 1 /\ resultPuts[j] <= claimWon[j]

\* the result was uploaded and the message, delivered again, has another
\* worker attempting the claim
C3_Witness ==
    \E w \in Workers :
        /\ wpc[w] = "claim"
        /\ resultPuts[wmsg[w].job_id] = 1
        /\ \A v \in Workers : wpc[v] \notin PastClaim

\* ------------------------------------------------------------------- C4
\* the edges of the status state machine, creation included
StatusEdges ==
    {<<"absent", "QUEUED">>, <<"QUEUED", "PROCESSING">>, <<"PROCESSING", "DONE">>,
     <<"PROCESSING", "FAILED">>, <<"QUEUED", "FAILED">>}

\* C4: every change of an item's status follows an edge of the state
\* machine; DONE and FAILED are terminal, no step changes them.
C4_OnlyStatusEdges ==
    [][\A j \in JobIds :
         \/ StatusOf(ddb', j) = StatusOf(ddb, j)
         \/ <<StatusOf(ddb, j), StatusOf(ddb', j)>> \in StatusEdges]_vars

\* ------------------------------------------------------------------- C5
\* C5: an item that is DONE has duration_ms >= 0 and its result blob is in
\* the bucket; an item that is FAILED has a non-empty error_message.
C5_OutcomeFields ==
    \A j \in DOMAIN ddb :
        /\ ddb[j].status = "DONE" =>
             /\ "duration_ms" \in DOMAIN ddb[j]
             /\ ddb[j].duration_ms >= 0
             /\ ddb[j].result_s3_key \in DOMAIN s3
        /\ ddb[j].status = "FAILED" =>
             /\ "error_message" \in DOMAIN ddb[j]
             /\ Len(ddb[j].error_message) > 0

\* a job is DONE after a processing step that took time
C5_Witness ==
    \E j \in DOMAIN ddb :
        /\ ddb[j].status = "DONE"
        /\ ddb[j].duration_ms = MaxElapsed
        /\ s3[ddb[j].result_s3_key].duration_ms = MaxElapsed

\* ------------------------------------------------------------------- C6
\* worker w is at the pre-check of a message whose result blob exists
AtPrecheckWithResult(w) ==
    wpc[w] = "precheck" /\ wmsg[w].result_key \in DOMAIN s3

\* where a worker's next step may take it from a position up to the claim
\* when the claim is not won ("receive": the message was acknowledged or
\* the process restarted)
SkipSteps ==
    [precheck |-> {"ackExists", "headError", "receive"},
     headError |-> {"claim", "receive"},
     claim |-> {"ackRefused", "claimError", "receive"},
     claimError |-> {"receive"},
     ackExists |-> {"receive"},
     ackRefused |-> {"receive"}]

C7_LoserOnlyAcknowledges ==
    /\ [](\A w1, w2 \in Workers :
            (w1 # w2 /\ wpc[w1] # "receive" /\ wmsg[w1] = wmsg[w2]
                /\ wpc[w1] \in PastClaim \cup {"ackRefused"}
                /\ wpc[w2] \in PastClaim \cup {"ackRefused"}) =>
                /\ ~(wpc[w1] \in PastClaim /\ wpc[w2] \in PastClaim)
                /\ StatusOf(ddb, wmsg[w1].job_id) # "QUEUED")
    /\ [][\A w \in Workers :
            /\ (wpc[w] = "claim" /\ ~ClaimCondition(ddb, wmsg[w].job_id) /\ Stepped(w)) =>
                 wpc'[w] \in SkipSteps.claim /\ UNCHANGED <<ddb, s3, sqs>>
            /\ (wpc[w] = "ackRefused" /\ Stepped(w)) =>
                 /\ wpc'[w] = "receive"
                 /\ UNCHANGED <<ddb, s3>>
                 /\ sqs' \in {sqs, sqs \ {wmsg[w]}}]_vars

\* both workers hold the same message: one is uploading, the other was
\* refused and has not yet acknowledged
C7_Witness ==
    \E w1, w2 \in Workers :
        /\ wpc[w1] = "upload" /\ wpc[w2] = "ackRefused"
        /\ wmsg[w1] = wmsg[w2]
        /\ wmsg[w2] \in sqs

\* ------------------------------------------------------------------- C8
\* C8: a worker handling a message of a job that is already DONE changes
\* neither the item nor any blob and wins no claim, on every redelivery;
\* all it does is acknowledge.
C8_DoneRerunIsNoOp ==
    [][\A w \in Workers :
         (wpc[w] \in BeforeClaim /\ StatusOf(ddb, wmsg[w].job_id) = "DONE" /\ Stepped(w)) =>
             /\ wpc'[w] \in SkipSteps[wpc[w]]
             /\ UNCHANGED <<ddb, s3, claimWon, resultPuts>>
             /\ sqs' \in {sqs, sqs \ {wmsg[w]}}]_vars

\* a redelivered message of a DONE job went through the claim and was refused
C8_Witness ==
    \E w \in Workers :
        /\ wpc[w] = "ackRefused"
        /\ StatusOf(ddb, wmsg[w].job_id) = "DONE"

\* ------------------------------------------------------------------- C9
\* request r is at the conditional insert and its job_id has an item
AtPutOfExisting(r) == spc[r] = "put" /\ sloc[r].job_id \in DOMAIN ddb
\* request r returns from the handler of a failed conditional insert
ReturnsFromConflict(r) ==
    /\ spc[r] = "cleanup" /\ sloc[r].e = "ConditionalCheckFailedException"
    /\ spc'[r] = "done"
\* the insert of a job_id that has an item fails: nothing is written or sent
ConflictRefused(r) ==
    (AtPutOfExisting(r) /\ spc'[r] # spc[r]) =>
        spc'[r] = "cleanup" /\ UNCHANGED <<ddb, sqs>>
\* the response of a failed insert: an error without a job_id
ConflictResponse(r) ==
    /\ resp'[r].code = 500
    /\ resp'[r].error = "ddb put failed"
    /\ "job_id" \notin DOMAIN resp'[r]

\* C9 as stated: a submission whose job_id has an item fails at the insert,
\* leaves the item and the queue as they were, has deleted the blob it
\* uploaded when it returns, and returns an error.
C9_ConflictDeletesBlob ==
    [][\A r \in Requests :
         /\ ConflictRefused(r)
         /\ ReturnsFromConflict(r) =>
              /\ UNCHANGED <<ddb, sqs>>
              /\ InputKey(sloc[r].job_id, sloc[r].filename) \notin DOMAIN s3'
              /\ ConflictResponse(r)]_vars

\* C9 as amended: ... and attempts to delete the blob it uploaded: when it
\* returns the blob is deleted unless delete_object itself failed, in which
\* case the failure is swallowed and the bucket is left as it was.
C9_ConflictAttemptsDelete ==
    [][\A r \in Requests :
         /\ ConflictRefused(r)
         /\ ReturnsFromConflict(r) =>
              /\ UNCHANGED <<ddb, sqs>>
              /\ s3' \in {s3, DeleteObject(s3, InputKey(sloc[r].job_id, sloc[r].filename))}
              /\ DOMAIN s3' \subseteq DOMAIN s3
              /\ ConflictResponse(r)]_vars

\* a request was refused at the insert, deleted its blob and returned
C9_Witness ==
    \E r \in Requests :
        /\ spc[r] = "done"
        /\ resp[r].code = 500 /\ resp[r].error = "ddb put failed"
        /\ resp[r].detail = "ConditionalCheckFailedException"
        /\ \E j \in DOMAIN ddb : ddb[j].input_s3_key \in DOMAIN s3
        /\ Cardinality(DOMAIN s3) = 1

\* ------------------------------------------------------------------ C10
IsPrefix(p, t) == Len(p) <= Len(t) /\ SubSeq(t, 1, Len(p)) = p

\* C10: after a submission whose insert succeeded and whose enqueue failed,
\* the item is FAILED with an error_message naming the enqueue failure, the
\* input blob is still in the bucket, the queue holds no message of the job,
\* and the error returned carries the job_id.
C10_EnqueueFailureOutcome ==
    \A r \in Requests :
        (resp[r].code = 500 /\ resp[r].error = "sqs send failed") =>
            /\ "job_id" \in DOMAIN resp[r]
            /\ resp[r].job_id \in DOMAIN ddb
            /\ LET item == ddb[resp[r].job_id] IN
               /\ item.status = "FAILED"
               /\ IsPrefix("sqs send failed", item.error_message)
               /\ item.input_s3_key \in DOMAIN s3
               /\ \A m \in sqs : m.job_id # item.job_id

\* ------------------------------------------------------------------ C11
\* what validation is to reject: no file field, a content type outside
\* pdf, png and jpeg, or more than 25 MiB
RejectedByValidation(in) ==
    \/ ~in.has_file
    \/ in.mimetype \notin {"application/pdf", "image/png", "image/jpeg"}
    \/ in.size > 26214400

\* request r has not started or was answered with a client error
NoSideEffectsOf(r) ==
    \/ spc[r] = "upload"
    \/ spc[r] = "done" /\ resp[r].code \in {400, 401}

\* C11: a submission that validation rejects (no file field, content type
\* outside pdf, png and jpeg, size above 25 MiB) is answered with 400 in
\* the step that reads it, and that step writes no blob, creates no item
\* and sends no message; while only rejected requests have run, the
\* bucket, the table and the queue are empty.
C11_RejectedBeforeSideEffects ==
    /\ []((\A r \in Requests : NoSideEffectsOf(r)) =>
            (DOMAIN s3 = {} /\ DOMAIN ddb = {} /\ sqs = {}))
    /\ [][\A r \in Requests :
            (spc[r] = "upload" /\ req[r].key_ok /\ RejectedByValidation(req[r])
                /\ spc'[r] # spc[r]) =>
                /\ spc'[r] = "done"
                /\ resp'[r].code = 400
                /\ sloc'[r] = NoReq
                /\ UNCHANGED <<s3, ddb, sqs>>]_vars

\* an oversized file was rejected and nothing is stored, while the other
\* request has not yet run
C11_Witness ==
    \E r1, r2 \in Requests :
        /\ spc[r1] = "done"
        /\ resp[r1] = [code |-> 400, error |-> "file too large (max 25MB)"]
        /\ spc[r2] = "upload" /\ req[r2].size = MaxFileBytes
        /\ DOMAIN s3 = {} /\ DOMAIN ddb = {} /\ sqs = {}

\* ------------------------------------------------------------------ C12
\* the positions of main() at which delete_message is the next call
AckPositions == {"ackExists", "ackRefused", "ackDone", "ackFailed"}

\* C12: whenever a worker is about to delete a message, the outcome of the
\* message's job is known: the pre-check found the result blob, or the
\* claim was refused on the condition, or the item is DONE or FAILED.
C12_AckAfterOutcome ==
    \A w \in Workers :
        wpc[w] \in AckPositions =>
            LET j == wmsg[w].job_id IN
            \/ wpc[w] = "ackExists" /\ ResultExists(j)
            \/ wpc[w] = "ackRefused" /\ ~ClaimCondition(ddb, j)
            \/ StatusOf(ddb, j) \in {"DONE", "FAILED"}

\* ------------------------------------------------------------------ C13
\* the descriptors of a failed download, processing step or result upload
ExecutionErrors ==
    {ErrText("ClientError", "download"), ErrText("OSError", "write"),
     ErrText("S3UploadFailedError", "upload")}

\* C13: when a step of the execution failed after a won claim, the worker
\* reaches the acknowledgement of the except branch with the item FAILED
\* and error_message set to the descriptor of the failure.
C13_ExecutionFailureRecorded ==
    \A w \in Workers :
        (wpc[w] = "ackFailed" /\ wloc[w].err \in ExecutionErrors) =>
            LET j == wmsg[w].job_id IN
            /\ StatusOf(ddb, j) = "FAILED"
            /\ ddb[j].error_message = wloc[w].err

\* ------------------------------------------------------------------ C14
\* C14: a claim attempt that fails with an error other than the condition
\* failure changes neither the table nor the bucket nor the queue, and the
\* only step the worker takes after it is the restart of its loop: no
\* acknowledgement, no write to the item, no processing step.
C14_ClaimErrorPropagates ==
    [][\A w \in Workers :
         /\ (wpc[w] = "claim" /\ wpc'[w] = "claimError") =>
              UNCHANGED <<ddb, s3, sqs, wmsg, claimWon, resultPuts>>
         /\ (wpc[w] = "claimError" /\ Stepped(w)) =>
              /\ wpc'[w] = "receive"
              /\ UNCHANGED <<ddb, s3, sqs, claimWon, resultPuts>>]_vars

\* the claim of a QUEUED job raised; its message is in the queue
C14_Witness ==
    \E w \in Workers :
        /\ wpc[w] = "claimError"
        /\ StatusOf(ddb, wmsg[w].job_id) = "QUEUED"
        /\ wmsg[w] \in sqs

\* ------------------------------------------------------------------ C15
\* C15: when the existence check raises an infrastructure error the worker
\* neither acknowledges nor stops: its next step is the claim attempt, and
\* nothing is changed on the way; the acknowledgement without a claim is
\* reached only when the check reported the blob.
C15_CheckErrorGoesToClaim ==
    [][\A w \in Workers :
         /\ (wpc[w] = "precheck" /\ wpc'[w] = "headError") =>
              UNCHANGED <<ddb, s3, sqs, wmsg, claimWon, resultPuts>>
         /\ (wpc[w] = "precheck" /\ wpc'[w] = "ackExists") =>
              ResultExists(wmsg[w].job_id)
         /\ (wpc[w] = "headError" /\ Stepped(w)) =>
              /\ wpc'[w] \in {"claim", "receive"}
              /\ wpc'[w] = "claim" => wmsg'[w] = wmsg[w]
              /\ UNCHANGED <<ddb, s3, sqs, claimWon, resultPuts>>]_vars

\* the existence check of a QUEUED job raised; the worker is in the handler
C15_Witness ==
    \E w \in Workers :
        /\ wpc[w] = "headError"
        /\ StatusOf(ddb, wmsg[w].job_id) = "QUEUED"
        /\ wmsg[w] \in sqs

\* ------------------------------------------------------------------ C16
\* job j is PROCESSING and no worker is past the claim for it: the worker
\* that won the claim is gone without an outcome
Orphaned(j) ==
    /\ StatusOf(ddb, j) = "PROCESSING"
    /\ \A w \in Workers : ~(Handling(w, j) /\ wpc[w] \in PastClaim)

\* C16: once the winner of a claim is gone without an outcome the item
\* stays PROCESSING: no step of any worker or request changes the item or
\* the bucket, wins a claim or runs the job again; a worker handling the
\* redelivered message never gets past the claim.
C16_CrashedClaimStaysProcessing ==
    [][\A j \in JobIds :
         Orphaned(j) =>
             /\ ddb'[j] = ddb[j]
             /\ UNCHANGED <<claimWon, resultPuts>>
             /\ \A w \in Workers :
                  (Handling(w, j) /\ Stepped(w)) =>
                      wpc'[w] \in BeforeClaim \cup {"receive"}]_vars

\* the winner crashed; the message, still in the queue, was delivered
\* again and the claim of the PROCESSING job was refused
C16_Witness ==
    \E w \in Workers :
        /\ wpc[w] = "ackRefused"
        /\ wmsg[w] \in sqs
        /\ Orphaned(wmsg[w].job_id)

\* ------------------------------------------------------------------ C18
HasWorkerId(table, j) == j \in DOMAIN table /\ "worker_id" \in DOMAIN table[j]

\* C18: worker_id is written only by a claim that succeeds, with the id of
\* the claiming worker; every other step (a refused claim, the DONE and
\* FAILED writes of ddb_set_status, the FAILED write of create_job) leaves
\* it as it was, and once set it is never cleared or replaced.
C18_WorkerIdOnlyByClaim ==
    /\ [](\A j \in JobIds : HasWorkerId(ddb, j) => claimWon[j] = 1)
    /\ [][\A j \in JobIds :
            /\ HasWorkerId(ddb, j) =>
                 HasWorkerId(ddb', j) /\ ddb'[j].worker_id = ddb[j].worker_id
            /\ (~HasWorkerId(ddb, j) /\ HasWorkerId(ddb', j)) =>
                 /\ claimWon'[j] = claimWon[j] + 1
                 /\ \E w \in Workers :
                      /\ wpc[w] = "claim" /\ wpc'[w] = "download"
                      /\ wmsg[w].job_id = j
                      /\ ddb'[j].worker_id = w]_vars

\* a job claimed by one worker is FAILED, and another worker's claim of it
\* was refused
C18_Witness ==
    \E w \in Workers :
        /\ wpc[w] = "ackRefused"
        /\ StatusOf(ddb, wmsg[w].job_id) = "FAILED"
        /\ HasWorkerId(ddb, wmsg[w].job_id)
        /\ ddb[wmsg[w].job_id].worker_id # w

\* ------------------------------------------------------------------ C19
\* the order of create_job's positions
SubmitEdges ==
    {<<"upload", "put">>, <<"upload", "done">>, <<"put", "send">>,
     <<"put", "cleanup">>, <<"cleanup", "done">>, <<"send", "done">>,
     <<"send", "markFailed">>, <<"markFailed", "done">>}

\* what a step of request r may do at each position of create_job
SubmitStepInOrder(r) ==
    LET j == sloc[r].job_id
        key == InputKey(j, sloc[r].filename) IN
    /\ <<spc[r], spc'[r]>> \in SubmitEdges
    /\ spc[r] = "upload" =>
         /\ UNCHANGED <<ddb, sqs>>
         /\ spc'[r] = "put" =>
              InputKey(sloc'[r].job_id, sloc'[r].filename) \in DOMAIN s3'
         /\ spc'[r] = "done" => s3' = s3
    /\ spc[r] = "put" =>
         /\ UNCHANGED <<s3, sqs>>
         /\ spc'[r] = "cleanup" => ddb' = ddb
         /\ spc'[r] = "send" =>
              /\ j \notin DOMAIN ddb /\ j \in DOMAIN ddb'
              /\ ddb'[j].input_s3_key = key
    /\ spc[r] = "cleanup" => UNCHANGED <<ddb, sqs>>
    /\ spc[r] = "send" =>
         /\ UNCHANGED <<ddb, s3>>
         /\ spc'[r] = "markFailed" => sqs' = sqs
         /\ spc'[r] = "done" =>
              /\ j \in DOMAIN ddb
              /\ sqs' = sqs \cup {Message(j, sloc[r].filename)}
    /\ spc[r] = "markFailed" => UNCHANGED <<s3, sqs>>

\* C19: create_job writes the blob, then inserts the item, then sends the
\* message, and a step that failed is followed by no later one: a request
\* reaches the insert only from an upload that left its blob in the
\* bucket, an item is created only by the insert of such a request, a
\* message is added only by the send of a request whose item exists, and
\* every message in the queue is of a job that has an item.
C19_SubmissionOrder ==
    /\ [](\A m \in sqs : m.job_id \in DOMAIN ddb)
    /\ [][/\ \A r \in Requests : spc'[r] # spc[r] => SubmitStepInOrder(r)
          /\ \A j \in JobIds :
               (j \notin DOMAIN ddb /\ j \in DOMAIN ddb') =>
                   \E r \in Requests :
                       spc[r] = "put" /\ spc'[r] = "send" /\ sloc[r].job_id = j
          /\ \A m \in sqs' \ sqs :
               \E r \in Requests :
                   spc[r] = "send" /\ spc'[r] = "done" /\ sloc[r].job_id = m.job_id]_vars

\* one request went through the three steps and its message is queued,
\* the other stopped at a failed upload
C19_Witness ==
    \E r1, r2 \in Requests :
        /\ resp[r1].code = 201
        /\ resp[r2] = [code |-> 500, error |-> "s3 upload failed"]
        /\ \E m \in sqs :
             /\ m.job_id = resp[r1].job_id
             /\ m.job_id \in DOMAIN ddb
             /\ ddb[m.job_id].input_s3_key \in DOMAIN s3

\* ------------------------------------------------------------------ C20
\* C20: the compensation of a submission refused at the conditional insert
\* removes only that submission's upload: the input blob that the existing
\* item refers to is in the bucket with the same content after the step,
\* whatever the file names of the two submissions.
C20_ConflictKeepsExistingBlob ==
    [][\A r \in Requests :
         ReturnsFromConflict(r) =>
             LET key == ddb[sloc[r].job_id].input_s3_key IN
             key \in DOMAIN s3 => (key \in DOMAIN s3' /\ s3'[key] = s3[key])]_vars

\* ------------------------------------------------------------------ C17
\* the submission of job j returned success
Accepted(j) == \E r \in Requests : resp[r].code = 201 /\ resp[r].job_id = j

\* job j has its outcome and no message of it is left
Settled(j) ==
    /\ StatusOf(ddb, j) \in {"DONE", "FAILED"}
    /\ \A m \in sqs : m.job_id # j

\* C17: with every worker taking its steps, no crash and no error of the
\* table, the queue or the bucket, every job whose submission returned
\* success comes to DONE or FAILED with its message deleted from the
\* queue, and stays so.
C17_AcceptedJobSettles ==
    \A j \in JobIds : Accepted(j) ~> [](Settled(j))

\* an accepted job is DONE, its message deleted, every worker idle
C17_Witness ==
    \E j \in JobIds :
        /\ Accepted(j)
        /\ StatusOf(ddb, j) = "DONE"
        /\ sqs = {}
        /\ \A w \in Workers : wpc[w] = "receive"
====
